---- MODULE Spec2Model ----
(***************************************************************************)
(* Model of the project scanner of llm-programming-setup                   *)
(* (src/src/llm_programming_setup_mcp/tools/project_scanner.py).           *)
(*                                                                         *)
(* File names and patterns are sequences of one-character strings, so that *)
(* the pattern matcher works on characters as the code does.  Python dicts *)
(* are ordered: a dict is a sequence of [key, value] items in insertion    *)
(* order.  A dict key that may be absent is a record field that may be     *)
(* absent.  Confidences are counted in tenths: 3 is 0.3, 10 is 1.0.        *)
(***************************************************************************)
EXTENDS Integers, Sequences, FiniteSets, TLC

VARIABLES goto_file, goto_config, fs, files, result, matcher,
          disk, _file_content_cache, last_read, context, callers,
          context_file, optimizer, tool_call

scanner_vars == <<goto_file, goto_config, fs, files, result>>

document_vars == <<disk, _file_content_cache, last_read, context, callers>>

tool_vars == <<context_file, optimizer, tool_call>>

vars == <<scanner_vars, matcher, document_vars, tool_vars>>

(***************************************************************************)
(* Python values and helpers                                               *)
(***************************************************************************)
None == "None"

Range(s) == {s[i] : i \in DOMAIN s}

Contains(s, x) == \E i \in DOMAIN s : s[i] = x

SeqsUpTo(S, n) == UNION {[1..k -> S] : k \in 0..n}

NoDuplicates(s) == \A i, j \in DOMAIN s : s[i] = s[j] => i = j

Min(a, b) == IF a <= b THEN a ELSE b

\* dict.get(key, default) on a dict modelled as a record
Get(d, key, default) == IF key \in DOMAIN d THEN d[key] ELSE default

\* dict.get(key, default) and `key in dict` on an ordered dict
HasKey(items, key) == \E i \in DOMAIN items : items[i].key = key

ItemGet(items, key, default) ==
    IF HasKey(items, key)
    THEN items[CHOOSE i \in DOMAIN items : items[i].key = key].value
    ELSE default

EmptyDict == <<>>

\* Python values that are no dict: None and a list carry their type's name
\* in a field that no dict of the model has as a key
PyNone == [python_type |-> "NoneType"]

PyList == [python_type |-> "list"]

\* the value has a get method
is_dict(value) == "python_type" \notin DOMAIN value

(***************************************************************************)
(* File names and patterns                                                 *)
(***************************************************************************)
package_json == <<"p","a","c","k","a","g","e",".","j","s","o","n">>
requirements_txt == <<"r","e","q","u","i","r","e","m","e","n","t","s",".","t","x","t">>
pubspec_yaml == <<"p","u","b","s","p","e","c",".","y","a","m","l">>
star_sln == <<"*",".","s","l","n">>
CMakeLists_txt == <<"C","M","a","k","e","L","i","s","t","s",".","t","x","t">>
star_py == <<"*",".","p","y">>
main_py == <<"m","a","i","n",".","p","y">>
setup_py == <<"s","e","t","u","p",".","p","y">>

general_principles == "coding-standards/general-principles.md"

\* Code points of the characters that occur in the model's file names
CodePoint ==
    ("!" :> 33) @@ ("*" :> 42) @@ ("-" :> 45) @@ ("." :> 46) @@ ("?" :> 63) @@
    ("A" :> 65) @@ ("C" :> 67) @@ ("L" :> 76) @@ ("M" :> 77) @@
    ("[" :> 91) @@ ("]" :> 93) @@ ("_" :> 95) @@ ("a" :> 97) @@ ("b" :> 98) @@ ("c" :> 99) @@ ("e" :> 101) @@
    ("g" :> 103) @@ ("i" :> 105) @@ ("j" :> 106) @@ ("k" :> 107) @@
    ("l" :> 108) @@ ("m" :> 109) @@ ("n" :> 110) @@ ("o" :> 111) @@
    ("p" :> 112) @@ ("q" :> 113) @@ ("r" :> 114) @@ ("s" :> 115) @@
    ("t" :> 116) @@ ("u" :> 117) @@ ("x" :> 120) @@ ("y" :> 121)

\* Python's str < str: lexicographic by code point
RECURSIVE StrLess(_, _)
StrLess(a, b) ==
    IF b = <<>> THEN FALSE
    ELSE IF a = <<>> THEN TRUE
    ELSE IF Head(a) = Head(b) THEN StrLess(Tail(a), Tail(b))
    ELSE CodePoint[Head(a)] < CodePoint[Head(b)]

\* sorted(list): a stable insertion sort
RECURSIVE Insert(_, _)
Insert(sortedSeq, x) ==
    IF sortedSeq = <<>> THEN <<x>>
    ELSE IF StrLess(x, Head(sortedSeq)) THEN <<x>> \o sortedSeq
    ELSE <<Head(sortedSeq)>> \o Insert(Tail(sortedSeq), x)

\* the list as it is
sorted_as_listed(s) == s

RECURSIVE sorted(_)
sorted(s) ==
    IF s = <<>> THEN <<>>
    ELSE Insert(sorted(SubSeq(s, 1, Len(s) - 1)), s[Len(s)])

(***************************************************************************)
(* Configuration: ProjectScanner._load_goto_config                         *)
(***************************************************************************)
\* lines 38-46: open or yaml.safe_load raise for a missing, unreadable or
\* unparseable file; yaml.safe_load returns None for an empty document and
\* a list for a document that is a sequence
_load_goto_config(file) ==
    IF file.kind \in {"missing", "unreadable", "unparseable"} THEN EmptyDict
    ELSE IF file.kind = "empty" THEN PyNone
    ELSE IF file.kind = "sequence" THEN PyList
    ELSE file.content

(***************************************************************************)
(* Pattern Matcher: ProjectScanner._match_pattern                          *)
(***************************************************************************)
startswith(s, prefix) ==
    Len(s) >= Len(prefix) /\ SubSeq(s, 1, Len(prefix)) = prefix

endswith(s, suffix) ==
    Len(s) >= Len(suffix) /\ SubSeq(s, Len(s) - Len(suffix) + 1, Len(s)) = suffix

\* fnmatch.translate: the index of the "]" closing the class opened just
\* before position i of pat, or Len(pat) + 1 when the class is not closed
RECURSIVE SkipToClose(_, _)
SkipToClose(pat, j) ==
    IF j > Len(pat) \/ pat[j] = "]" THEN j ELSE SkipToClose(pat, j + 1)

ClassEnd(pat, i) ==
    LET j1 == IF i <= Len(pat) /\ pat[i] = "!" THEN i + 1 ELSE i
        j2 == IF j1 <= Len(pat) /\ pat[j1] = "]" THEN j1 + 1 ELSE j1
    IN  SkipToClose(pat, j2)

\* the characters a class body accepts: single characters and a-b ranges
RECURSIVE InClass(_, _)
InClass(c, stuff) ==
    IF stuff = <<>> THEN FALSE
    ELSE IF Len(stuff) >= 3 /\ stuff[2] = "-"
         THEN \/ /\ CodePoint[stuff[1]] <= CodePoint[c]
                 /\ CodePoint[c] <= CodePoint[stuff[3]]
              \/ InClass(c, SubSeq(stuff, 4, Len(stuff)))
         ELSE c = stuff[1] \/ InClass(c, Tail(stuff))

\* fnmatch.fnmatch on a POSIX host (normcase is the identity): the whole
\* name against a shell glob with *, ? and bracket classes
RECURSIVE fnmatch(_, _)
fnmatch(name, pat) ==
    IF pat = <<>> THEN name = <<>>
    ELSE IF Head(pat) = "*"
         THEN \/ fnmatch(name, Tail(pat))
              \/ name # <<>> /\ fnmatch(Tail(name), pat)
    ELSE IF Head(pat) = "?"
         THEN name # <<>> /\ fnmatch(Tail(name), Tail(pat))
    ELSE IF Head(pat) = "[" /\ ClassEnd(pat, 2) <= Len(pat)
         THEN LET j == ClassEnd(pat, 2)
                  negated == pat[2] = "!"
                  stuff == SubSeq(pat, IF negated THEN 3 ELSE 2, j - 1)
              IN  /\ name # <<>>
                  /\ InClass(Head(name), stuff) # negated
                  /\ fnmatch(Tail(name), SubSeq(pat, j + 1, Len(pat)))
    ELSE name # <<>> /\ Head(name) = Head(pat) /\ fnmatch(Tail(name), Tail(pat))

\* a pattern without * accepts every name it is a prefix of
_match_pattern_prefix(filename, pattern) ==
    IF ~Contains(pattern, "*") THEN startswith(filename, pattern)
    ELSE IF startswith(pattern, <<"*", ".">>)
         THEN LET extension == SubSeq(pattern, 3, Len(pattern))
              IN  endswith(filename, <<".">> \o extension)
    ELSE fnmatch(filename, pattern)

\* the suffix compared is the extension without its dot
_match_pattern_without_dot(filename, pattern) ==
    IF ~Contains(pattern, "*") THEN filename = pattern
    ELSE IF startswith(pattern, <<"*", ".">>)
         THEN LET extension == SubSeq(pattern, 3, Len(pattern))
              IN  endswith(filename, extension)
    ELSE fnmatch(filename, pattern)

\* lines 146-158
_match_pattern(filename, pattern) ==
    IF ~Contains(pattern, "*") THEN filename = pattern
    ELSE IF startswith(pattern, <<"*", ".">>)
         THEN LET extension == SubSeq(pattern, 3, Len(pattern))
              IN  endswith(filename, <<".">> \o extension)
    ELSE fnmatch(filename, pattern)

(***************************************************************************)
(* Language Scorer: ProjectScanner._detect_languages                       *)
(***************************************************************************)
key_files == <<package_json, requirements_txt, pubspec_yaml, star_sln, CMakeLists_txt>>

\* lines 118-126: the matches one pattern contributes, in list order
pattern_matches(file_list, pattern) ==
    IF Contains(pattern, "*")
    THEN SelectSeq(file_list, LAMBDA f : _match_pattern(f, pattern))
    ELSE IF Contains(file_list, pattern) THEN <<pattern>> ELSE <<>>

\* a file that an earlier pattern matched is not appended again
RECURSIVE collect_matches_unique(_, _)
collect_matches_unique(file_list, file_patterns) ==
    IF file_patterns = <<>> THEN <<>>
    ELSE LET first == pattern_matches(file_list, Head(file_patterns))
             rest == collect_matches_unique(file_list, Tail(file_patterns))
         IN  first \o SelectSeq(rest, LAMBDA f : ~Contains(first, f))

\* lines 116-126: matches after the loop over file_patterns
RECURSIVE collect_matches(_, _)
collect_matches(file_list, file_patterns) ==
    IF file_patterns = <<>> THEN <<>>
    ELSE pattern_matches(file_list, Head(file_patterns))
         \o collect_matches(file_list, Tail(file_patterns))

\* lines 134-136: one pass of the loop over key_files, from index i on
RECURSIVE boost_key_files(_, _, _)
boost_key_files(confidence, matches, i) ==
    IF i > Len(key_files) THEN confidence
    ELSE IF \E m \in DOMAIN matches : _match_pattern(matches[m], key_files[i])
         THEN boost_key_files(Min(10, confidence + 4), matches, i + 1)
         ELSE boost_key_files(confidence, matches, i + 1)

\* the count term is not clamped before the boost
compute_confidence_unclamped_count(matches) ==
    boost_key_files(Len(matches) * 3, matches, 1)

\* the boost is 0.3, the weight of one match, instead of 0.4
compute_confidence_small_boost(matches) ==
    LET base == Min(10, Len(matches) * 3)
    IN  IF \E m \in DOMAIN matches, k \in DOMAIN key_files :
               _match_pattern(matches[m], key_files[k])
        THEN Min(10, base + 3)
        ELSE base

\* lines 130-136
compute_confidence(matches) ==
    boost_key_files(Min(10, Len(matches) * 3), matches, 1)

\* a language without matches is recorded with confidence 0
RECURSIVE detect_from_keeping_empty(_, _, _)
detect_from_keeping_empty(file_list, language_detection, i) ==
    IF i > Len(language_detection) THEN EmptyDict
    ELSE LET language == language_detection[i].key
             config == language_detection[i].value
             matches == collect_matches(file_list, Get(config, "files", <<>>))
         IN  <<[key |-> language,
                value |-> [confidence |-> compute_confidence(matches),
                           matched_files |-> matches,
                           description |->
                               Get(config, "description", <<language, "project">>)]]>>
             \o detect_from_keeping_empty(file_list, language_detection, i + 1)

\* lines 114-142, for the items of language_detection from index i on
RECURSIVE detect_from(_, _, _)
detect_from(file_list, language_detection, i) ==
    IF i > Len(language_detection) THEN EmptyDict
    ELSE LET language == language_detection[i].key
             config == language_detection[i].value
             file_patterns == Get(config, "files", <<>>)
             matches == collect_matches(file_list, file_patterns)
             rest == detect_from(file_list, language_detection, i + 1)
         IN  IF matches # <<>>
             THEN <<[key |-> language,
                     value |-> [confidence |-> compute_confidence(matches),
                                matched_files |-> matches,
                                description |->
                                    Get(config, "description", <<language, "project">>)]]>>
                  \o rest
             ELSE rest

_detect_languages(config, file_list) ==
    detect_from(file_list, Get(config, "language_detection", EmptyDict), 1)

(***************************************************************************)
(* Primary Language Selector: ProjectScanner._determine_primary_language   *)
(***************************************************************************)
\* the first language of priority_order, detected or not
first_priority_unchecked(priority_order, detection_results) ==
    IF priority_order = <<>> THEN None ELSE Head(priority_order)

\* lines 169-171: the first language of priority_order that was detected
RECURSIVE first_priority_match(_, _)
first_priority_match(priority_order, detection_results) ==
    IF priority_order = <<>> THEN None
    ELSE IF HasKey(detection_results, Head(priority_order)) THEN Head(priority_order)
    ELSE first_priority_match(Tail(priority_order), detection_results)

\* the last item of maximal key
RECURSIVE max_by_confidence_last(_, _, _)
max_by_confidence_last(detection_results, best, i) ==
    IF i > Len(detection_results) THEN detection_results[best].key
    ELSE IF detection_results[i].value.confidence
            >= detection_results[best].value.confidence
         THEN max_by_confidence_last(detection_results, i, i + 1)
         ELSE max_by_confidence_last(detection_results, best, i + 1)

\* Python's max(iterable, key=...): the first item of maximal key
RECURSIVE max_by_confidence(_, _, _)
max_by_confidence(detection_results, best, i) ==
    IF i > Len(detection_results) THEN detection_results[best].key
    ELSE IF detection_results[i].value.confidence
            > detection_results[best].value.confidence
         THEN max_by_confidence(detection_results, i, i + 1)
         ELSE max_by_confidence(detection_results, best, i + 1)

\* the priority order is read from the top level of the configuration
_determine_primary_language_top_level(config, detection_results) ==
    IF detection_results = EmptyDict THEN None
    ELSE LET priority_order == Get(config, "priority_order", <<>>)
             lang == first_priority_match(priority_order, detection_results)
         IN  IF lang # None THEN lang
             ELSE max_by_confidence(detection_results, 1, 2)

\* lines 160-174
_determine_primary_language(config, detection_results) ==
    IF detection_results = EmptyDict THEN None
    ELSE LET priority_order ==
                 Get(Get(config, "multi_language", EmptyDict), "priority_order", <<>>)
             lang == first_priority_match(priority_order, detection_results)
         IN  IF lang # None THEN lang
             ELSE max_by_confidence(detection_results, 1, 2)

(***************************************************************************)
(* Standards Resolver: _get_standards and _check_mandatory_files           *)
(***************************************************************************)
\* lines 176-184
_get_standards(config, language) ==
    IF language = None THEN <<general_principles>>
    ELSE LET language_detection == Get(config, "language_detection", EmptyDict)
             lang_config == ItemGet(language_detection, language, EmptyDict)
         IN  Get(lang_config, "standards", <<general_principles>>)

\* all_present tells that some mandatory file is present
_check_mandatory_files_some_present(config, file_list, language) ==
    IF language = None
    THEN [required |-> <<>>, missing |-> <<>>, present |-> <<>>]
    ELSE LET language_detection == Get(config, "language_detection", EmptyDict)
             lang_config == ItemGet(language_detection, language, EmptyDict)
             mandatory_files == Get(lang_config, "mandatory_files", <<>>)
             present == SelectSeq(mandatory_files, LAMBDA f : Contains(file_list, f))
             missing == SelectSeq(mandatory_files, LAMBDA f : ~Contains(file_list, f))
         IN  [required |-> mandatory_files,
              present |-> present,
              missing |-> missing,
              all_present |-> Len(present) > 0]

\* lines 186-203
_check_mandatory_files(config, file_list, language) ==
    IF language = None
    THEN [required |-> <<>>, missing |-> <<>>, present |-> <<>>]
    ELSE LET language_detection == Get(config, "language_detection", EmptyDict)
             lang_config == ItemGet(language_detection, language, EmptyDict)
             mandatory_files == Get(lang_config, "mandatory_files", <<>>)
             present == SelectSeq(mandatory_files, LAMBDA f : Contains(file_list, f))
             missing == SelectSeq(mandatory_files, LAMBDA f : ~Contains(file_list, f))
         IN  [required |-> mandatory_files,
              present |-> present,
              missing |-> missing,
              all_present |-> Len(missing) = 0]

(***************************************************************************)
(* Directory Scan Orchestration: ProjectScanner.scan                       *)
(***************************************************************************)
project_path == <<"work", "proj">>

NoResult == [status |-> "not scanned"]

\* every child is taken, whether regular file or directory
regular_files_unfiltered(directory, listing) == listing

\* lines 73-77: the children that iterdir yields and is_file accepts
regular_files(directory, listing) ==
    SelectSeq(listing, LAMBDA name : name \in directory.entries)

\* lines 84-106: the Scan Report over the enumerated regular files
scan_report(config, file_list) ==
    LET detection_results == _detect_languages(config, file_list)
        primary_language == _determine_primary_language(config, detection_results)
        standards == IF primary_language # None
                     THEN _get_standards(config, primary_language)
                     ELSE <<>>
        mandatory_files == _check_mandatory_files(config, file_list, primary_language)
    IN  [path |-> project_path,
         project_name |-> project_path[Len(project_path)],
         files_found |-> sorted(file_list),
         detected_languages |-> detection_results,
         primary_language |-> primary_language,
         confidence |-> IF primary_language # None
                        THEN Get(ItemGet(detection_results, primary_language, EmptyDict),
                                 "confidence", 0)
                        ELSE 0,
         applicable_standards |-> standards,
         mandatory_files |-> mandatory_files,
         total_files |-> Len(file_list)]

\* an error result whatever the path is: the directory test is skipped
scan_without_is_dir(config, kind, file_list) ==
    IF kind \in {"missing", "file"}
    THEN [error |-> "Path does not exist", path |-> project_path]
    ELSE IF kind = "denied"
    THEN [error |-> "Permission denied accessing", path |-> project_path]
    ELSE IF ~is_dict(config)
    THEN [raised |-> "AttributeError"]
    ELSE scan_report(config, file_list)

\* lines 58-82, then the report: kind is what the path is on the host,
\* file_list the regular files iterdir yields, in its order; line 112 raises
\* AttributeError when the loaded configuration has no get method
scan(config, kind, file_list) ==
    IF kind = "missing"
    THEN [error |-> "Path does not exist", path |-> project_path]
    ELSE IF kind = "file"
    THEN [error |-> "Path is not a directory", path |-> project_path]
    ELSE IF kind = "denied"
    THEN [error |-> "Permission denied accessing", path |-> project_path]
    ELSE IF ~is_dict(config)
    THEN [raised |-> "AttributeError"]
    ELSE scan_report(config, file_list)

\* _get_standards appends the general principles to the list it returns,
\* which is the list of the configuration
config_after_scan_appending(config, kind, file_list) ==
    IF kind # "dir" \/ ~is_dict(config) THEN config
    ELSE LET table == Get(config, "language_detection", EmptyDict)
             primary_language ==
                 _determine_primary_language(config, _detect_languages(config, file_list))
         IN  IF "language_detection" \notin DOMAIN config THEN config
             ELSE [config EXCEPT !.language_detection =
                      [i \in DOMAIN table |->
                          IF table[i].key = primary_language
                             /\ "standards" \in DOMAIN table[i].value
                          THEN [table[i] EXCEPT !.value.standards =
                                   Append(@, general_principles)]
                          ELSE table[i]]]

\* lines 48-203: self.goto_config after a scan; the scanner assigns it only
\* at line 36 and no method writes into it, nor into the lists of it that
\* the report shares (applicable_standards, mandatory_files.required)
config_after_scan(config, kind, file_list) == config

(***************************************************************************)
(* Document cache and Context Assembler: utils.safe_file_read and          *)
(* ContextGenerator.generate                                               *)
(*                                                                         *)
(* A standards document is named by its identifier below the rules         *)
(* directory, which is fixed once the generator is constructed.  The disk  *)
(* maps each document to [readable |-> FALSE] or to its text.  The cache   *)
(* is a function from the cached documents to their texts.                 *)
(***************************************************************************)
python_standards == "coding-standards/python-standards.md"

typescript_standards == "coding-standards/typescript-standards.md"

\* f"# {standard_file}\n\n*Content not available*" for the documents of the model
placeholder ==
    (general_principles :>
        "# coding-standards/general-principles.md\n\n*Content not available*")
    @@ (python_standards :>
        "# coding-standards/python-standards.md\n\n*Content not available*")
    @@ (typescript_standards :>
        "# coding-standards/typescript-standards.md\n\n*Content not available*")

\* dict[key] = value
DictSet(dict, key, value) == (key :> value) @@ dict

\* the cached entry is not looked up: the file is opened at every call
safe_file_read_refreshing(cache, files_on_disk, file_path, use_cache) ==
    IF files_on_disk[file_path].readable
    THEN LET content == files_on_disk[file_path].text
         IN  [returned |-> content,
              cache |-> IF use_cache THEN DictSet(cache, file_path, content) ELSE cache,
              opened |-> TRUE]
    ELSE [returned |-> None, cache |-> cache, opened |-> TRUE]

\* utils.py lines 55-74: the value returned, the cache afterwards and
\* whether the file was opened
safe_file_read(cache, files_on_disk, file_path, use_cache) ==
    IF use_cache /\ file_path \in DOMAIN cache
    THEN [returned |-> cache[file_path], cache |-> cache, opened |-> FALSE]
    ELSE IF files_on_disk[file_path].readable
    THEN LET content == files_on_disk[file_path].text
         IN  [returned |-> content,
              cache |-> IF use_cache THEN DictSet(cache, file_path, content) ELSE cache,
              opened |-> TRUE]
    ELSE [returned |-> None, cache |-> cache, opened |-> TRUE]

\* the entry is fetched whenever caching is requested, cached or not
cache_hit_unchecked(cache, cache_key, use_cache) == use_cache

\* utils.py line 58: use_cache and cache_key in _file_content_cache
cache_hit(cache, cache_key, use_cache) == use_cache /\ cache_key \in DOMAIN cache

\* utils.py line 60: _file_content_cache[cache_key]
cache_fetch(cache, cache_key) ==
    IF cache_key \in DOMAIN cache THEN cache[cache_key] ELSE "KeyError"

\* the content is tested for truth, so an empty document gets the placeholder
RECURSIVE load_from_truthy(_, _, _, _)
load_from_truthy(cache, files_on_disk, standards, i) ==
    IF i > Len(standards) THEN [content |-> EmptyDict, cache |-> cache]
    ELSE LET standard_file == standards[i]
             read == safe_file_read(cache, files_on_disk, standard_file, TRUE)
             rest == load_from_truthy(read.cache, files_on_disk, standards, i + 1)
             file_content == IF read.returned # None /\ read.returned # ""
                             THEN read.returned
                             ELSE placeholder[standard_file]
         IN  [content |-> <<[key |-> standard_file, value |-> file_content]>>
                          \o rest.content,
              cache |-> rest.cache]

\* context_generator.py lines 61-70, for the standards from index i on:
\* the items of content and the cache afterwards
RECURSIVE load_from(_, _, _, _)
load_from(cache, files_on_disk, standards, i) ==
    IF i > Len(standards) THEN [content |-> EmptyDict, cache |-> cache]
    ELSE LET standard_file == standards[i]
             read == safe_file_read(cache, files_on_disk, standard_file, TRUE)
             rest == load_from(read.cache, files_on_disk, standards, i + 1)
             file_content == IF read.returned # None
                             THEN read.returned
                             ELSE placeholder[standard_file]
         IN  [content |-> <<[key |-> standard_file, value |-> file_content]>>
                          \o rest.content,
              cache |-> rest.cache]

\* context_generator.py lines 57-72
_load_standards_content(cache, files_on_disk, standards) ==
    load_from(cache, files_on_disk, standards, 1)

\* context_generator.py lines 21-55 and 74-185: the error text, or the parts
\* of the scan result that _build_context writes into the document (the
\* generation time and the fixed instructions are left out), and the cache
\* afterwards
generate(cache, files_on_disk, scan_result, project_name) ==
    IF "error" \in DOMAIN scan_result
    THEN [returned |-> [text |-> <<"Error: Cannot generate context - ", scan_result.error>>],
          cache |-> cache]
    ELSE LET detected_project_name ==
                 IF project_name # None THEN project_name
                 ELSE Get(scan_result, "project_name", "unknown-project")
             primary_language == Get(scan_result, "primary_language", None)
             standards == Get(scan_result, "applicable_standards", <<>>)
             loaded == _load_standards_content(cache, files_on_disk, standards)
         IN  [returned |->
                  [project_name |-> detected_project_name,
                   primary_language |-> primary_language,
                   confidence |-> Get(scan_result, "confidence", 0),
                   total_files |-> Get(scan_result, "total_files", 0),
                   mandatory_files |-> Get(scan_result, "mandatory_files", EmptyDict),
                   standards_content |-> loaded.content],
              cache |-> loaded.cache]

(***************************************************************************)
(* Token Optimizer: TokenOptimizer.estimate_tokens and                     *)
(* suggest_optimizations                                                   *)
(*                                                                         *)
(* A context text is the record of what the optimizer measures in it: the  *)
(* words, the code blocks and those longer than 500 characters, the inline *)
(* code spans, the URLs, the repeated lines, the occurrences of example,   *)
(* sample or demo, and the occurrences of ** and of *.  The byte and       *)
(* character counts, the content analysis and the cost estimates of the    *)
(* estimation are left out.  The ratio is counted in tenths.               *)
(***************************************************************************)
DEFAULT_WORDS_TO_TOKENS_RATIO == 13

CODE_BLOCK_TOKEN_MULTIPLIER == 50

INLINE_CODE_TOKEN_MULTIPLIER == 2

URL_TOKEN_MULTIPLIER == 5

\* token_optimizer.py lines 113-147
_estimate_tokens_from_text(text) ==
    LET base_tokens == (text.words * DEFAULT_WORDS_TO_TOKENS_RATIO) \div 10
        code_block_tokens == text.code_blocks * CODE_BLOCK_TOKEN_MULTIPLIER
        inline_code_tokens == text.inline_code * INLINE_CODE_TOKEN_MULTIPLIER
        url_tokens == text.urls * URL_TOKEN_MULTIPLIER
    IN  [word_count |-> text.words,
         estimated_tokens |->
             base_tokens + code_block_tokens + inline_code_tokens + url_tokens,
         breakdown |-> [base_tokens |-> base_tokens,
                        code_block_tokens |-> code_block_tokens,
                        inline_code_tokens |-> inline_code_tokens,
                        url_tokens |-> url_tokens]]

\* lines 181-190
_assess_optimization_potential(content) ==
    LET total_tokens == _estimate_tokens_from_text(content).estimated_tokens
    IN  IF total_tokens < 1000 THEN "low"
        ELSE IF total_tokens < 5000 THEN "medium"
        ELSE "high"

\* lines 63-79: the estimation of a file that was read
estimation_of(content) ==
    LET estimation == _estimate_tokens_from_text(content)
    IN  [file |-> "LLM_CONTEXT.md",
         word_count |-> estimation.word_count,
         estimated_tokens |-> estimation.estimated_tokens,
         token_breakdown |-> estimation.breakdown,
         optimization_potential |-> _assess_optimization_potential(content)]

\* lines 192-256: the type, the savings and the priority of each suggestion
_generate_optimization_suggestions(content, estimation) ==
    (IF estimation.word_count > 2000
     THEN <<[type |-> "verbosity",
             token_savings |-> estimation.estimated_tokens \div 5,
             priority |-> "medium"]>>
     ELSE <<>>)
    \o (IF content.repeated_lines > 0
        THEN <<[type |-> "repetition",
                token_savings |-> content.repeated_lines * 10,
                priority |-> "high"]>>
        ELSE <<>>)
    \o (IF content.examples > 10
        THEN <<[type |-> "examples",
                token_savings |-> content.examples * 20,
                priority |-> "medium"]>>
        ELSE <<>>)
    \o (IF content.long_code_blocks > 0
        THEN <<[type |-> "code_blocks",
                token_savings |-> content.long_code_blocks * CODE_BLOCK_TOKEN_MULTIPLIER,
                priority |-> "medium"]>>
        ELSE <<>>)
    \o (IF content.bold_marks > 50 \/ content.star_marks > 100
        THEN <<[type |-> "formatting", token_savings |-> 20, priority |-> "low"]>>
        ELSE <<>>)

\* sum(s.get("token_savings", 0) for s in suggestions)
RECURSIVE total_savings(_)
total_savings(suggestions) ==
    IF suggestions = <<>> THEN 0
    ELSE Head(suggestions).token_savings + total_savings(Tail(suggestions))

\* lines 268-281
_assess_implementation_difficulty(suggestions) ==
    IF suggestions = <<>> THEN "none"
    ELSE LET high_priority ==
                 Len(SelectSeq(suggestions, LAMBDA x : x.priority = "high"))
         IN  IF high_priority > 2 \/ total_savings(suggestions) > 1000 THEN "moderate"
             ELSE IF total_savings(suggestions) > 200 THEN "easy"
             ELSE "minimal"

\* lines 101-111: the result for the content of the second read and the
\* estimation of the first
optimizations_of(content, estimation) ==
    LET suggestions == _generate_optimization_suggestions(content, estimation)
    IN  [file |-> "LLM_CONTEXT.md",
         current_tokens |-> estimation.estimated_tokens,
         optimization_suggestions |-> suggestions,
         potential_savings |-> total_savings(suggestions),
         priority_actions |-> SelectSeq(suggestions, LAMBDA x : x.priority = "high"),
         implementation_difficulty |-> _assess_implementation_difficulty(suggestions)]

\* lines 48-52: the result when Path.exists is false
file_not_found == [error |-> "File not found", estimated_tokens |-> 0]

\* lines 57-61: the result when open or read raises
could_not_read == [error |-> "Could not read file", estimated_tokens |-> 0]

\* lines 98-99, outside any try: what open raises for a file of this kind
open_raises(file) ==
    [raised |-> IF file.kind = "missing" THEN "FileNotFoundError" ELSE "PermissionError"]

\* lines 97-111: the result of suggest_optimizations once the estimation
\* holds no error
second_read_result(file, estimation) ==
    IF file.kind = "file" THEN optimizations_of(file.content, estimation)
    ELSE open_raises(file)

(***************************************************************************)
(* Server entry points: fastmcp_server.py and server.py                    *)
(*                                                                         *)
(* ProjectScanner.scan and ContextGenerator.generate are declared with     *)
(* async def: a call that is not awaited returns a coroutine object and    *)
(* runs no line of the body.                                               *)
(***************************************************************************)
\* the value of calling an async def function without await
coroutine(function) == [python_type |-> "coroutine", function |-> function]

is_coroutine(value) ==
    "python_type" \in DOMAIN value /\ value.python_type = "coroutine"

\* json.dumps(value, indent=2): the text of a dict, TypeError for a coroutine
json_dumps(value) ==
    IF is_coroutine(value) THEN [raised |-> "TypeError"] ELSE [json_text_of |-> value]

\* TextContent(type="text", text=value): pydantic refuses a text that is no str
TextContent(value) ==
    IF is_coroutine(value) THEN [raised |-> "ValidationError"] ELSE [text |-> value]

\* server.py lines 220-230: the except branch of call_tool
error_result(exception) == [isError |-> TRUE, text |-> <<"Error: ", exception>>]

\* fastmcp_server.py lines 56-61: result = project_scanner.scan(path)
fastmcp_scan_project(path) == coroutine("ProjectScanner.scan")

\* fastmcp_server.py lines 75-87: generate is called on the coroutine of scan
fastmcp_generate_context(path, project_name) == coroutine("ContextGenerator.generate")

\* server.py lines 136-147 and 220-230
call_tool_scan_project(path) ==
    LET scanned == coroutine("ProjectScanner.scan")
        dumped == json_dumps(scanned)
    IN  IF "raised" \in DOMAIN dumped THEN error_result(dumped.raised)
        ELSE [isError |-> FALSE, text |-> dumped]

\* server.py lines 149-169 and 220-230
call_tool_generate_context(path, project_name) ==
    LET generated == coroutine("ContextGenerator.generate")
        content == TextContent(generated)
    IN  IF "raised" \in DOMAIN content THEN error_result(content.raised)
        ELSE [isError |-> FALSE, text |-> content.text]

(***************************************************************************)
(* Bounds and the inputs drawn within them                                 *)
(***************************************************************************)
\* the most patterns one detection table holds, over all its rules
MaxPatterns == 2

\* the most regular files in the scanned directory
MaxFiles == 2

Languages == {"python", "javascript_typescript"}

Patterns == {package_json, requirements_txt, star_py, main_py}

FileNames == {package_json, requirements_txt, main_py, setup_py}

StandardsOf ==
    [python |-> <<python_standards, general_principles>>,
     javascript_typescript |-> <<typescript_standards>>]

MandatoryOf ==
    [python |-> <<requirements_txt, main_py>>,
     javascript_typescript |-> <<package_json>>]

\* a rule of a minimal table declares its patterns only, a rule of a full
\* table declares every optional entry as well
Rules(language, budget, full) ==
    LET lists == SeqsUpTo(Patterns, budget)
    IN  IF full
        THEN {[files |-> p,
               description |-> <<language, "application">>,
               standards |-> StandardsOf[language],
               mandatory_files |-> MandatoryOf[language]] : p \in lists}
        ELSE {[files |-> p] : p \in lists}

\* the detection tables over the languages of ls, in that order
RECURSIVE TablesOver(_, _, _)
TablesOver(ls, budget, full) ==
    IF ls = <<>> THEN {EmptyDict}
    ELSE UNION {{<<[key |-> Head(ls), value |-> r]>> \o t :
                    t \in TablesOver(Tail(ls), budget - Len(r.files), full)} :
                r \in Rules(Head(ls), budget, full)}

LanguageOrders ==
    {ls \in SeqsUpTo(Languages, Cardinality(Languages)) : NoDuplicates(ls)}

Tables ==
    UNION {TablesOver(ls, MaxPatterns, full) : ls \in LanguageOrders, full \in BOOLEAN}

\* "dotnet" is a language no table of the model has a rule for
PriorityOrders ==
    {<<"python", "javascript_typescript">>,
     <<"javascript_typescript", "python">>,
     <<"dotnet", "javascript_typescript">>}

Configs ==
    {[language_detection |-> t] : t \in Tables}
    \cup {[language_detection |-> t, multi_language |-> [priority_order |-> p]] :
             t \in Tables, p \in PriorityOrders}

\* what rules/goto.yaml may hold when the scanner is constructed
GotoFiles ==
    {[kind |-> k] : k \in {"missing", "unreadable", "unparseable", "empty", "sequence"}}
    \cup {[kind |-> "mapping", content |-> c] : c \in Configs}

\* entries are the regular files of the directory, subdirs its
\* sub-directories with the regular files inside them
Directories ==
    {[kind |-> k, entries |-> {}, subdirs |-> {}] : k \in {"missing", "file", "denied"}}
    \cup {[kind |-> "dir", entries |-> e, subdirs |-> {}] :
             e \in {e \in SUBSET FileNames : Cardinality(e) <= MaxFiles}}

\* the names of the children of the directory
ChildNames(directory) == directory.entries \cup {d.name : d \in directory.subdirs}

\* the orders in which iterdir may yield the entries
Listings(entries) ==
    {l \in [1..Cardinality(entries) -> entries] : Range(l) = entries}

(***************************************************************************)
(* The state machine                                                       *)
(***************************************************************************)
\* the standards documents below the rules directory
Documents == {python_standards, typescript_standards, general_principles}

NoRead == [status |-> "not called"]

NoContext == [status |-> "not generated"]

\* no call of safe_file_read is under way in any thread
NoCallers == <<>>

\* no document can be read and nothing was read or generated
DocumentsIdle ==
    /\ disk = [d \in Documents |-> [readable |-> FALSE]]
    /\ _file_content_cache = <<>>
    /\ last_read = NoRead
    /\ context = NoContext
    /\ callers = NoCallers

\* no tool call was made and no call of the token optimizer is under way
NoOptimizerCall == [pc |-> "idle"]

NoToolCall == [status |-> "not called"]

ToolsIdle ==
    /\ context_file = [kind |-> "missing"]
    /\ optimizer = NoOptimizerCall
    /\ tool_call = NoToolCall

\* no call of the pattern matcher is under way
MatcherIdle == matcher = [filename |-> <<>>, pattern |-> <<>>]

Init ==
    /\ ToolsIdle
    /\ goto_file \in GotoFiles
    /\ goto_config = _load_goto_config(goto_file)
    /\ fs \in Directories
    /\ files = <<>>
    /\ result = NoResult
    /\ MatcherIdle
    /\ DocumentsIdle

Scan ==
    /\ \E listing \in Listings(ChildNames(fs)) :
          /\ files' = regular_files(fs, listing)
          /\ result' = scan(goto_config, fs.kind, regular_files(fs, listing))
          /\ goto_config' = config_after_scan(goto_config, fs.kind, regular_files(fs, listing))
    /\ UNCHANGED <<goto_file, fs, matcher, document_vars, tool_vars>>

Next == Scan

Spec == Init /\ [][Next]_vars

(***************************************************************************)
(* Scans of a directory that has a sub-directory                           *)
(***************************************************************************)
\* a sub-directory may bear a name that patterns match
SubdirNames == {main_py, package_json}

NestedFileNames == {requirements_txt}

TreeDirectories ==
    {[kind |-> "dir", entries |-> e, subdirs |-> {[name |-> n, entries |-> inner]}] :
        n \in SubdirNames,
        inner \in SUBSET NestedFileNames,
        e \in {e \in SUBSET FileNames : Cardinality(e) + 1 <= MaxFiles}}

\* the tables whose rules declare mandatory files, without priority order
TreeConfigs ==
    {[language_detection |-> t] :
        t \in UNION {TablesOver(ls, MaxPatterns, TRUE) : ls \in LanguageOrders}}

InitTree ==
    /\ ToolsIdle
    /\ goto_file \in {[kind |-> "mapping", content |-> c] : c \in TreeConfigs}
    /\ goto_config = _load_goto_config(goto_file)
    /\ fs \in {d \in TreeDirectories : d.entries \cap {s.name : s \in d.subdirs} = {}}
    /\ files = <<>>
    /\ result = NoResult
    /\ MatcherIdle
    /\ DocumentsIdle

SpecTree == InitTree /\ [][Next]_vars

(***************************************************************************)
(* Scans under a configuration that declares priority_order at top level   *)
(***************************************************************************)
\* priority_order at the top level of goto.yaml, with or without the
\* priority_order of the multi_language section
TopLevelConfigs ==
    {[language_detection |-> t, priority_order |-> p] :
        t \in UNION {TablesOver(ls, MaxPatterns, FALSE) : ls \in LanguageOrders},
        p \in PriorityOrders}
    \cup {[language_detection |-> t, priority_order |-> p,
           multi_language |-> [priority_order |-> q]] :
        t \in UNION {TablesOver(ls, MaxPatterns, FALSE) : ls \in LanguageOrders},
        p \in PriorityOrders, q \in PriorityOrders}

InitTopLevel ==
    /\ ToolsIdle
    /\ goto_file \in {[kind |-> "mapping", content |-> c] : c \in TopLevelConfigs}
    /\ goto_config = _load_goto_config(goto_file)
    /\ fs \in {d \in Directories : d.kind = "dir"}
    /\ files = <<>>
    /\ result = NoResult
    /\ MatcherIdle
    /\ DocumentsIdle

SpecTopLevel == InitTopLevel /\ [][Next]_vars

(***************************************************************************)
(* Scans one after another on one scanner, while the host changes the      *)
(* directory and the document cache holds a document                       *)
(***************************************************************************)
\* tables with a rule for every language, each rule declaring standards and
\* mandatory files, with and without a priority order
RepeatedTables == TablesOver(<<"python", "javascript_typescript">>, MaxPatterns, TRUE)

RepeatedConfigs ==
    {[language_detection |-> t] : t \in RepeatedTables}
    \cup {[language_detection |-> t,
           multi_language |-> [priority_order |-> <<"javascript_typescript", "python">>]] :
             t \in RepeatedTables}

\* the directories within one file of MaxFiles
RepeatedDirectories == {d \in Directories : Cardinality(d.entries) + 1 <= MaxFiles}

InitRepeated ==
    /\ ToolsIdle
    /\ goto_file \in {[kind |-> "missing"]}
                      \cup {[kind |-> "mapping", content |-> c] : c \in RepeatedConfigs}
    /\ goto_config = _load_goto_config(goto_file)
    /\ fs \in RepeatedDirectories
    /\ files = <<>>
    /\ result = NoResult
    /\ MatcherIdle
    /\ disk = [d \in Documents |-> [readable |-> TRUE, text |-> "# Coding rules"]]
    /\ _file_content_cache = (general_principles :> "# Coding rules")
    /\ last_read = NoRead
    /\ context = NoContext
    /\ callers = NoCallers

\* the host creates, removes, protects or refills the project directory
ChangeDirectory ==
    /\ fs' \in RepeatedDirectories \ {fs}
    /\ UNCHANGED <<goto_file, goto_config, files, result, matcher, document_vars, tool_vars>>

NextRepeated == Scan \/ ChangeDirectory

SpecRepeated == InitRepeated /\ [][NextRepeated]_vars

(***************************************************************************)
(* The pattern matcher on its own: one call per behaviour                  *)
(***************************************************************************)
\* the longest file name and the longest pattern of a call
MaxNameLen == 3

MaxPatternLen == 3

NameChars == {"a", "A", "."}

PatternChars == NameChars \cup {"*", "?", "[", "]"}

MatcherFilenames == SeqsUpTo(NameChars, MaxNameLen) \ {<<>>}

MatcherPatterns == SeqsUpTo(PatternChars, MaxPatternLen) \ {<<>>}

\* no scanner is constructed and no directory is scanned
ScannerIdle ==
    /\ goto_file = [kind |-> "missing"]
    /\ goto_config = EmptyDict
    /\ fs = [kind |-> "missing", entries |-> {}, subdirs |-> {}]
    /\ files = <<>>
    /\ result = NoResult

InitMatcher ==
    /\ ToolsIdle
    /\ ScannerIdle
    /\ DocumentsIdle
    /\ matcher \in [filename : MatcherFilenames, pattern : MatcherPatterns]

\* _match_pattern(filename, pattern), and whether lines 118-126 of
\* _detect_languages list the file for the pattern
Match ==
    /\ "matches" \notin DOMAIN matcher
    /\ matcher' = [filename |-> matcher.filename,
                   pattern |-> matcher.pattern,
                   matches |-> _match_pattern(matcher.filename, matcher.pattern),
                   listed |-> pattern_matches(<<matcher.filename>>, matcher.pattern)
                                  # <<>>]
    /\ UNCHANGED <<scanner_vars, document_vars, tool_vars>>

NextMatcher == Match

SpecMatcher == InitMatcher /\ [][NextMatcher]_vars

(***************************************************************************)
(* The document cache and the context generator                            *)
(***************************************************************************)
\* an empty document is a document
Texts == {"", "# Coding rules"}

DocumentStates == {[readable |-> FALSE]} \cup {[readable |-> TRUE, text |-> t] : t \in Texts}

\* both rules of the table declare their standards; nothing, requirements.txt
\* or package.json is found, or the path does not exist
DocumentsConfig ==
    [language_detection |->
        <<[key |-> "python",
           value |-> [files |-> <<requirements_txt>>,
                      standards |-> StandardsOf["python"]]],
          [key |-> "javascript_typescript",
           value |-> [files |-> <<package_json>>,
                      standards |-> StandardsOf["javascript_typescript"]]]>>]

ScanResults ==
    {scan(DocumentsConfig, "missing", <<>>)}
    \cup {scan(DocumentsConfig, "dir", l) : l \in {<<>>, <<requirements_txt>>, <<package_json>>}}

InitDocuments ==
    /\ ToolsIdle
    /\ ScannerIdle
    /\ MatcherIdle
    /\ disk \in [Documents -> DocumentStates]
    /\ _file_content_cache = <<>>
    /\ last_read = NoRead
    /\ context = NoContext
    /\ callers = NoCallers

\* a direct call safe_file_read(rules_path / document, use_cache=...)
SafeFileRead ==
    \E document \in Documents, use_cache \in BOOLEAN :
        LET read == safe_file_read(_file_content_cache, disk, document, use_cache)
        IN  /\ _file_content_cache' = read.cache
            /\ last_read' = [file_path |-> document,
                             use_cache |-> use_cache,
                             returned |-> read.returned,
                             opened |-> read.opened]
            /\ UNCHANGED <<disk, context, callers, scanner_vars, matcher, tool_vars>>

\* context_generator.generate(scan_result, project_name)
Generate ==
    \E scan_result \in ScanResults, project_name \in {None, "my-project"} :
        LET call == generate(_file_content_cache, disk, scan_result, project_name)
        IN  /\ _file_content_cache' = call.cache
            /\ context' = call.returned
            /\ UNCHANGED <<disk, last_read, callers, scanner_vars, matcher, tool_vars>>

\* the host edits, removes, protects or restores a document
ChangeDocument ==
    \E document \in Documents, state \in DocumentStates :
        /\ state # disk[document]
        /\ disk' = [disk EXCEPT ![document] = state]
        /\ UNCHANGED <<_file_content_cache, last_read, context, callers, scanner_vars, matcher, tool_vars>>

NextDocuments == SafeFileRead \/ Generate \/ ChangeDocument

SpecDocuments == InitDocuments /\ [][NextDocuments]_vars

(***************************************************************************)
(* Concurrent calls of safe_file_read on one path                          *)
(*                                                                         *)
(* Each thread runs utils.py lines 55-74 with use_cache=True or False; a   *)
(* step is one access to the cache or to the file.  The file is not        *)
(* changed while the calls run, and the cache is empty or holds the text   *)
(* of the file.                                                            *)
(***************************************************************************)
MaxCallers == 3

Callers == 1..MaxCallers

\* the one path all the calls read
cache_key == general_principles

\* the threads are at line 58, about to test the cache
InitConcurrent ==
    /\ ToolsIdle
    /\ ScannerIdle
    /\ MatcherIdle
    /\ \E state \in DocumentStates :
          /\ disk = [d \in Documents |->
                        IF d = cache_key THEN state ELSE [readable |-> FALSE]]
          /\ _file_content_cache \in
                {<<>>} \cup (IF state.readable THEN {cache_key :> state.text} ELSE {})
    /\ last_read = NoRead
    /\ context = NoContext
    /\ callers \in [Callers -> {[pc |-> "check", use_cache |-> u, content |-> None,
                                 returned |-> None, stored |-> FALSE] :
                                    u \in BOOLEAN}]

\* line 58: if use_cache and cache_key in _file_content_cache
CheckCache(c) ==
    /\ callers[c].pc = "check"
    /\ callers' = [callers EXCEPT ![c].pc =
                      IF cache_hit(_file_content_cache, cache_key, callers[c].use_cache)
                      THEN "fetch" ELSE "open"]
    /\ UNCHANGED <<disk, _file_content_cache, last_read, context, scanner_vars, matcher, tool_vars>>

\* line 60: return _file_content_cache[cache_key]
FetchCached(c) ==
    /\ callers[c].pc = "fetch"
    /\ callers' = [callers EXCEPT ![c].pc = "done",
                                  ![c].returned = cache_fetch(_file_content_cache, cache_key)]
    /\ UNCHANGED <<disk, _file_content_cache, last_read, context, scanner_vars, matcher, tool_vars>>

\* lines 62-64 and 72-74: open and read the file, or log the exception and
\* return None; lines 67 and 71: return content when caching is off
ReadFile(c) ==
    /\ callers[c].pc = "open"
    /\ callers' =
          IF ~disk[cache_key].readable
          THEN [callers EXCEPT ![c].pc = "done", ![c].returned = None]
          ELSE IF callers[c].use_cache
          THEN [callers EXCEPT ![c].pc = "store", ![c].content = disk[cache_key].text]
          ELSE [callers EXCEPT ![c].pc = "done",
                               ![c].content = disk[cache_key].text,
                               ![c].returned = disk[cache_key].text]
    /\ UNCHANGED <<disk, _file_content_cache, last_read, context, scanner_vars, matcher, tool_vars>>

\* lines 68-71: _file_content_cache[cache_key] = content; return content
StoreCache(c) ==
    /\ callers[c].pc = "store"
    /\ _file_content_cache' = DictSet(_file_content_cache, cache_key, callers[c].content)
    /\ callers' = [callers EXCEPT ![c].pc = "done",
                                  ![c].returned = callers[c].content,
                                  ![c].stored = TRUE]
    /\ UNCHANGED <<disk, last_read, context, scanner_vars, matcher, tool_vars>>

NextConcurrent ==
    \E c \in Callers : CheckCache(c) \/ FetchCached(c) \/ ReadFile(c) \/ StoreCache(c)

SpecConcurrent == InitConcurrent /\ [][NextConcurrent]_vars

(***************************************************************************)
(* Calls of the token optimizer while the host changes the context file    *)
(***************************************************************************)
\* a short note, a long plain text, and a long document with code, links,
\* repetitions and examples
ContextTexts ==
    {[words |-> 10, code_blocks |-> 0, long_code_blocks |-> 0, inline_code |-> 0,
      urls |-> 0, repeated_lines |-> 0, examples |-> 0, bold_marks |-> 0,
      star_marks |-> 0],
     [words |-> 3000, code_blocks |-> 0, long_code_blocks |-> 0, inline_code |-> 0,
      urls |-> 0, repeated_lines |-> 0, examples |-> 0, bold_marks |-> 0,
      star_marks |-> 0],
     [words |-> 2500, code_blocks |-> 2, long_code_blocks |-> 1, inline_code |-> 3,
      urls |-> 1, repeated_lines |-> 2, examples |-> 12, bold_marks |-> 60,
      star_marks |-> 120]}

\* what the path of the context file may name on the host
ContextFiles ==
    {[kind |-> "missing"], [kind |-> "unreadable"]}
    \cup {[kind |-> "file", content |-> t] : t \in ContextTexts}

NoEstimation == [status |-> "none"]

InitOptimizer ==
    /\ ScannerIdle
    /\ MatcherIdle
    /\ DocumentsIdle
    /\ context_file \in ContextFiles
    /\ optimizer = NoOptimizerCall
    /\ tool_call = NoToolCall

\* estimate_tokens(context_file) or suggest_optimizations(context_file) is
\* called; lines 46 and 92
CallOptimizer ==
    /\ optimizer.pc \in {"idle", "done"}
    /\ \E operation \in {"estimate_tokens", "suggest_optimizations"} :
          optimizer' = [pc |-> "exists", operation |-> operation,
                        estimation |-> NoEstimation]
    /\ UNCHANGED <<context_file, tool_call, scanner_vars, matcher, document_vars>>

\* lines 48-52: if not file_path.exists()
CheckExists ==
    /\ optimizer.pc = "exists"
    /\ optimizer' =
          IF context_file.kind = "missing"
          THEN [pc |-> "done", operation |-> optimizer.operation,
                estimation |-> NoEstimation, returned |-> file_not_found]
          ELSE [optimizer EXCEPT !.pc = "read"]
    /\ UNCHANGED <<context_file, tool_call, scanner_vars, matcher, document_vars>>

\* lines 54-79 and 92-95: the first read; estimate_tokens returns its
\* result, suggest_optimizations returns it when it holds an error
FirstRead ==
    /\ optimizer.pc = "read"
    /\ optimizer' =
          IF context_file.kind # "file"
          THEN [pc |-> "done", operation |-> optimizer.operation,
                estimation |-> could_not_read, returned |-> could_not_read]
          ELSE IF optimizer.operation = "estimate_tokens"
          THEN [pc |-> "done", operation |-> optimizer.operation,
                estimation |-> estimation_of(context_file.content),
                returned |-> estimation_of(context_file.content)]
          ELSE [pc |-> "second_read", operation |-> optimizer.operation,
                estimation |-> estimation_of(context_file.content)]
    /\ UNCHANGED <<context_file, tool_call, scanner_vars, matcher, document_vars>>

\* lines 97-111: the second read and the suggestions
SecondRead ==
    /\ optimizer.pc = "second_read"
    /\ optimizer' =
          [pc |-> "done", operation |-> optimizer.operation,
           estimation |-> optimizer.estimation,
           returned |-> second_read_result(context_file, optimizer.estimation)]
    /\ UNCHANGED <<context_file, tool_call, scanner_vars, matcher, document_vars>>

\* the host writes, removes or protects the context file
ChangeContextFile ==
    /\ context_file' \in ContextFiles \ {context_file}
    /\ UNCHANGED <<optimizer, tool_call, scanner_vars, matcher, document_vars>>

NextOptimizer ==
    CallOptimizer \/ CheckExists \/ FirstRead \/ SecondRead \/ ChangeContextFile

SpecOptimizer == InitOptimizer /\ [][NextOptimizer]_vars

(***************************************************************************)
(* Tool calls through the two server entry points                          *)
(***************************************************************************)
InitServer ==
    /\ goto_file \in {[kind |-> "mapping", content |-> c] : c \in TreeConfigs}
    /\ goto_config = _load_goto_config(goto_file)
    /\ fs \in Directories
    /\ files = <<>>
    /\ result = NoResult
    /\ MatcherIdle
    /\ DocumentsIdle
    /\ context_file = [kind |-> "missing"]
    /\ optimizer = NoOptimizerCall
    /\ tool_call = NoToolCall

\* scan_project(path) of fastmcp_server.py
FastmcpScanProject ==
    /\ tool_call' = [entry_point |-> "fastmcp_server", name |-> "scan_project",
                     returned |-> fastmcp_scan_project(project_path)]
    /\ UNCHANGED <<context_file, optimizer, scanner_vars, matcher, document_vars>>

\* generate_context(path, project_name) of fastmcp_server.py
FastmcpGenerateContext ==
    /\ \E project_name \in {None, "my-project"} :
          tool_call' = [entry_point |-> "fastmcp_server", name |-> "generate_context",
                        project_name |-> project_name,
                        returned |-> fastmcp_generate_context(project_path, project_name)]
    /\ UNCHANGED <<context_file, optimizer, scanner_vars, matcher, document_vars>>

\* call_tool("scan_project", {"path": path}) of server.py
CallToolScanProject ==
    /\ tool_call' = [entry_point |-> "server", name |-> "scan_project",
                     returned |-> call_tool_scan_project(project_path)]
    /\ UNCHANGED <<context_file, optimizer, scanner_vars, matcher, document_vars>>

\* call_tool("generate_context", {"path": path, "project_name": ...}) of
\* server.py
CallToolGenerateContext ==
    /\ \E project_name \in {None, "my-project"} :
          tool_call' = [entry_point |-> "server", name |-> "generate_context",
                        project_name |-> project_name,
                        returned |-> call_tool_generate_context(project_path, project_name)]
    /\ UNCHANGED <<context_file, optimizer, scanner_vars, matcher, document_vars>>

NextServer ==
    \/ FastmcpScanProject
    \/ FastmcpGenerateContext
    \/ CallToolScanProject
    \/ CallToolGenerateContext

SpecServer == InitServer /\ [][NextServer]_vars

(***************************************************************************)
(* Properties                                                              *)
(***************************************************************************)
\* the last scan returned a Scan Report
IsReport == "detected_languages" \in DOMAIN result

\* the last scan returned an error result
IsError == "error" \in DOMAIN result

DetectionTable == Get(goto_config, "language_detection", EmptyDict)

ConfiguredPriorityOrder ==
    Get(Get(goto_config, "multi_language", EmptyDict), "priority_order", <<>>)

Detected(language) == HasKey(result.detected_languages, language)

ConfidenceOf(language) ==
    ItemGet(result.detected_languages, language, EmptyDict).confidence

NoPriorityMatch ==
    \A i \in DOMAIN ConfiguredPriorityOrder : ~Detected(ConfiguredPriorityOrder[i])

\* a matched file is one of the key files
IsKeyFile(f) ==
    \/ f \in {package_json, requirements_txt, pubspec_yaml, CMakeLists_txt}
    \/ endswith(f, <<".", "s", "l", "n">>)

\* sub is s with some elements left out
RECURSIVE IsSubSequence(_, _)
IsSubSequence(sub, s) ==
    IF sub = <<>> THEN TRUE
    ELSE IF s = <<>> THEN FALSE
    ELSE IF Head(sub) = Head(s) THEN IsSubSequence(Tail(sub), Tail(s))
    ELSE IsSubSequence(sub, Tail(s))

\* C1: when a language of the priority order was detected, the primary
\* language is the first detected language of the priority order, whatever
\* the confidences
C1_PriorityDominance ==
    (IsReport /\ ~NoPriorityMatch) =>
        \E i \in DOMAIN ConfiguredPriorityOrder :
            /\ result.primary_language = ConfiguredPriorityOrder[i]
            /\ Detected(ConfiguredPriorityOrder[i])
            /\ \A j \in 1..(i - 1) : ~Detected(ConfiguredPriorityOrder[j])

\* the primary language was chosen by priority against a detected language
\* of strictly greater confidence
C1_Witness ==
    /\ IsReport
    /\ ~NoPriorityMatch
    /\ \E d \in DOMAIN result.detected_languages :
          result.detected_languages[d].value.confidence > result.confidence

\* C2: a detected language with n matched files has confidence
\* min(1.0, min(1.0, 0.3 n) + 0.4 k), k = 1 when a matched file is a key
\* file and 0 otherwise, however many key files matched
C2_ConfidenceFormula ==
    IsReport =>
        \A d \in DOMAIN result.detected_languages :
            LET entry == result.detected_languages[d].value
                n == Len(entry.matched_files)
                k == IF \E m \in DOMAIN entry.matched_files :
                            IsKeyFile(entry.matched_files[m])
                     THEN 1 ELSE 0
            IN  n >= 1 /\ entry.confidence = Min(10, Min(10, 3 * n) + 4 * k)

\* two different key files matched for one language
C2_Witness ==
    /\ IsReport
    /\ \E d \in DOMAIN result.detected_languages :
          /\ Contains(result.detected_languages[d].value.matched_files, package_json)
          /\ Contains(result.detected_languages[d].value.matched_files, requirements_txt)

\* C3: every confidence of a Detection Result lies in [0, 1]
C3_ConfidenceInUnitInterval ==
    IsReport =>
        \A d \in DOMAIN result.detected_languages :
            /\ result.detected_languages[d].value.confidence >= 0
            /\ result.detected_languages[d].value.confidence <= 10

\* a language whose matches alone weigh more than 1.0
C3_Witness ==
    /\ IsReport
    /\ \E d \in DOMAIN result.detected_languages :
          Len(result.detected_languages[d].value.matched_files) * 3 > 10

\* C4: a language of the table is a key of the Detection Result exactly
\* when some file of the directory matches one of its patterns, and every
\* recorded language has matched files
C4_DetectedIffMatched ==
    IsReport =>
        /\ \A t \in DOMAIN DetectionTable :
              Detected(DetectionTable[t].key) <=>
                  \E f \in fs.entries, p \in Range(DetectionTable[t].value.files) :
                      _match_pattern(f, p)
        /\ \A d \in DOMAIN result.detected_languages :
              /\ result.detected_languages[d].value.matched_files # <<>>
              /\ \E t \in DOMAIN DetectionTable :
                    DetectionTable[t].key = result.detected_languages[d].key

\* one language of the table was detected and another, with patterns, was not
C4_Witness ==
    /\ IsReport
    /\ \E t, u \in DOMAIN DetectionTable :
          /\ Detected(DetectionTable[t].key)
          /\ ~Detected(DetectionTable[u].key)
          /\ DetectionTable[u].value.files # <<>>

\* C5: the primary language is null exactly when the Detection Result is
\* empty, and a non-null primary language is a key of the Detection Result
C5_PrimaryIsDetected ==
    IsReport =>
        /\ result.primary_language = None <=> result.detected_languages = EmptyDict
        /\ result.primary_language # None => Detected(result.primary_language)

\* the priority order starts with a language that has no rule, and a
\* primary language was chosen
C5_Witness ==
    /\ IsReport
    /\ ConfiguredPriorityOrder # <<>>
    /\ ~HasKey(DetectionTable, ConfiguredPriorityOrder[1])
    /\ result.primary_language # None

\* C6: without a detected language in the priority order, the primary
\* language has the maximum confidence and is the earliest such language in
\* the order of the detection table
C6_MaxConfidenceFirst ==
    (IsReport /\ result.detected_languages # EmptyDict /\ NoPriorityMatch) =>
        \E t \in DOMAIN DetectionTable :
            /\ DetectionTable[t].key = result.primary_language
            /\ Detected(DetectionTable[t].key)
            /\ \A u \in DOMAIN DetectionTable :
                  Detected(DetectionTable[u].key) =>
                      /\ ConfidenceOf(DetectionTable[u].key)
                             <= ConfidenceOf(DetectionTable[t].key)
                      /\ u < t => ConfidenceOf(DetectionTable[u].key)
                                      < ConfidenceOf(DetectionTable[t].key)

\* two languages were detected with the same confidence and none of them is
\* in the priority order
C6_Witness ==
    /\ IsReport
    /\ NoPriorityMatch
    /\ Len(result.detected_languages) = 2
    /\ result.detected_languages[1].value.confidence
           = result.detected_languages[2].value.confidence

\* C7: applicable_standards is the default list when the primary language
\* is null or its rule declares no standards, and the rule's standards list
\* otherwise
C7_ApplicableStandards ==
    IsReport =>
        LET rule == ItemGet(DetectionTable, result.primary_language, EmptyDict)
        IN  result.applicable_standards =
                IF result.primary_language = None \/ "standards" \notin DOMAIN rule
                THEN <<general_principles>>
                ELSE rule.standards

\* C8: with a null primary language the mandatory-files report is empty and
\* carries the all-present flag, set
C8_NullLanguageAllPresent ==
    (IsReport /\ result.primary_language = None) =>
        /\ result.mandatory_files.required = <<>>
        /\ result.mandatory_files.present = <<>>
        /\ result.mandatory_files.missing = <<>>
        /\ "all_present" \in DOMAIN result.mandatory_files
        /\ result.mandatory_files.all_present

\* C9: for a non-null language, present and missing partition required in
\* its order by membership in the file list, and all_present tells that
\* missing is empty
C9_MandatoryPartition ==
    (IsReport /\ result.primary_language # None) =>
        LET report == result.mandatory_files
            rule == ItemGet(DetectionTable, result.primary_language, EmptyDict)
        IN  /\ report.required = Get(rule, "mandatory_files", <<>>)
            /\ IsSubSequence(report.present, report.required)
            /\ IsSubSequence(report.missing, report.required)
            /\ Len(report.present) + Len(report.missing) = Len(report.required)
            /\ \A i \in DOMAIN report.required :
                  IF report.required[i] \in fs.entries
                  THEN Contains(report.present, report.required[i])
                  ELSE Contains(report.missing, report.required[i])
            /\ Range(report.present) \subseteq fs.entries
            /\ Range(report.missing) \cap fs.entries = {}
            /\ report.all_present <=> report.missing = <<>>

\* some mandatory file is present and some is missing
C9_Witness ==
    /\ IsReport
    /\ result.primary_language # None
    /\ result.mandatory_files.present # <<>>
    /\ result.mandatory_files.missing # <<>>

\* C10: a scan of a path that does not exist, is not a directory or may not
\* be enumerated returns the matching error and nothing but path and error
C10_ErrorResults ==
    result # NoResult =>
        /\ fs.kind = "missing" =>
              result = [error |-> "Path does not exist", path |-> project_path]
        /\ fs.kind = "file" =>
              result = [error |-> "Path is not a directory", path |-> project_path]
        /\ fs.kind = "denied" =>
              result = [error |-> "Permission denied accessing", path |-> project_path]
        /\ IsError => DOMAIN result = {"error", "path"}
        /\ IsError <=> fs.kind # "dir"

\* a path that is not a directory was scanned
C10_Witness ==
    /\ fs.kind = "file"
    /\ IsError

\* C11: with a missing or malformed configuration file every scan of an
\* existing directory returns a Scan Report with an empty Detection Result
\* and a null primary language
C11_DegradesToEmptyTable ==
    (goto_file.kind # "mapping" /\ fs.kind = "dir" /\ result # NoResult) =>
        /\ IsReport
        /\ result.detected_languages = EmptyDict
        /\ result.primary_language = None

\* C12: two scans of the same directory with the same configuration return
\* identical results, in whatever order the entries were enumerated
C12_ScanDeterministic ==
    [][result # NoResult => result' = result]_vars

\* the call of the pattern matcher has returned
Matched == "matches" \in DOMAIN matcher

HasWildcard(pattern) == \E i \in DOMAIN pattern : pattern[i] \in {"*", "?", "["}

\* the pattern is *.<ext> with a literal extension
IsExtensionPattern(pattern) ==
    /\ startswith(pattern, <<"*", ".">>)
    /\ ~HasWildcard(SubSeq(pattern, 3, Len(pattern)))

\* C13: a pattern without wildcard character matches a file name exactly
\* when the two are equal, case included
C13_LiteralPatternIsEquality ==
    (Matched /\ ~HasWildcard(matcher.pattern)) =>
        (matcher.matches <=> matcher.filename = matcher.pattern)

\* a literal pattern was matched by the file name equal to it
C13_Witness ==
    /\ Matched
    /\ ~HasWildcard(matcher.pattern)
    /\ matcher.filename = matcher.pattern
    /\ matcher.matches

\* C14: the pattern *.<ext> with a literal extension matches a file name
\* exactly when the name ends with .<ext>
C14_ExtensionPatternIsSuffix ==
    (Matched /\ IsExtensionPattern(matcher.pattern)) =>
        (matcher.matches <=> endswith(matcher.filename, Tail(matcher.pattern)))

\* the file named exactly .a was matched by *.a
C14_Witness ==
    /\ Matched
    /\ matcher.pattern = <<"*", ".", "a">>
    /\ matcher.filename = <<".", "a">>
    /\ matcher.matches

\* C15: a pattern with a wildcard that is not *.<ext> with a literal
\* extension is decided by shell-glob matching of the whole file name, by
\* _match_pattern and by the pattern handling of _detect_languages
C15_OtherWildcardsAreGlobs ==
    (Matched /\ HasWildcard(matcher.pattern) /\ ~IsExtensionPattern(matcher.pattern)) =>
        /\ matcher.matches <=> fnmatch(matcher.filename, matcher.pattern)
        /\ matcher.listed <=> fnmatch(matcher.filename, matcher.pattern)

\* the step is a call of generate that returned another context document
GenerateStep == context' # context /\ "standards_content" \in DOMAIN context'

\* C16: generate gives a standards document that cannot be read the
\* placeholder text, and every readable one a text of its own
C16_UnreadableGetsPlaceholder ==
    [][GenerateStep =>
          \A i \in DOMAIN context'.standards_content :
              LET document == context'.standards_content[i].key
                  content == context'.standards_content[i].value
              IN  IF disk[document].readable
                  THEN content # placeholder[document]
                  ELSE content = placeholder[document]]_vars

\* C16, amended: generate gives a cached document its cached text, an
\* uncached document that cannot be read the placeholder text, and an
\* uncached readable document the text on disk
C16_UncachedUnreadableGetsPlaceholder ==
    [][GenerateStep =>
          \A i \in DOMAIN context'.standards_content :
              LET document == context'.standards_content[i].key
                  content == context'.standards_content[i].value
              IN  IF document \in DOMAIN _file_content_cache
                  THEN content = _file_content_cache[document]
                  ELSE IF disk[document].readable
                  THEN content = disk[document].text
                  ELSE content = placeholder[document]]_vars

\* a context document with the placeholder for one standards document and
\* a text for another
C16_Witness ==
    /\ "standards_content" \in DOMAIN context
    /\ \E i, j \in DOMAIN context.standards_content :
          /\ context.standards_content[i].value
                 = placeholder[context.standards_content[i].key]
          /\ context.standards_content[j].value
                 # placeholder[context.standards_content[j].key]

\* the step is a call of safe_file_read with use_cache enabled
CachedReadStep == last_read' # last_read /\ last_read'.use_cache

\* C19: the cache never loses or replaces an entry, gains one only on a
\* successful read of the file, and a cached read of a cached path returns
\* the cached text without opening the file
C19_CacheAppendOnlyReadThrough ==
    [][/\ \A d \in DOMAIN _file_content_cache :
             /\ d \in DOMAIN _file_content_cache'
             /\ _file_content_cache'[d] = _file_content_cache[d]
       /\ \A d \in DOMAIN _file_content_cache' \ DOMAIN _file_content_cache :
             /\ disk[d].readable
             /\ _file_content_cache'[d] = disk[d].text
       /\ CachedReadStep =>
             IF last_read'.file_path \in DOMAIN _file_content_cache
             THEN /\ last_read'.returned = _file_content_cache[last_read'.file_path]
                  /\ ~last_read'.opened
             ELSE /\ last_read'.opened
                  /\ last_read'.returned = None
                        <=> last_read'.file_path \notin DOMAIN _file_content_cache'
      ]_vars

\* a cached read returned a text that the file no longer holds
C19_Witness ==
    /\ last_read # NoRead
    /\ last_read.use_cache
    /\ ~last_read.opened
    /\ \/ ~disk[last_read.file_path].readable
       \/ disk[last_read.file_path].text # last_read.returned

\* C17: a Scan Report counts and lists exactly the regular files that are
\* children of the directory: only they are matched files or present
\* mandatory files
C17_OnlyImmediateRegularFiles ==
    IsReport =>
        /\ Range(result.files_found) = fs.entries
        /\ result.total_files = Cardinality(fs.entries)
        /\ \A d \in DOMAIN result.detected_languages :
              Range(result.detected_languages[d].value.matched_files) \subseteq fs.entries
        /\ Range(result.mandatory_files.present) \subseteq fs.entries

\* the directory has a sub-directory whose name a pattern of the table
\* matches, a file inside it is a mandatory file, and the language of the
\* pattern was not detected
C17_Witness ==
    /\ IsReport
    /\ \E s \in fs.subdirs, t \in DOMAIN DetectionTable :
          /\ \E p \in Range(DetectionTable[t].value.files) : _match_pattern(s.name, p)
          /\ s.entries \cap Range(DetectionTable[t].value.mandatory_files) # {}
          /\ ~Detected(DetectionTable[t].key)

TopLevelPriorityOrder == Get(goto_config, "priority_order", <<>>)

\* C18: when the configuration declares priority_order at top level and a
\* language of that order was detected, the primary language is the first
\* detected language of that order
C18_TopLevelPriorityOrderApplies ==
    (/\ IsReport
     /\ "priority_order" \in DOMAIN goto_config
     /\ \E i \in DOMAIN TopLevelPriorityOrder : Detected(TopLevelPriorityOrder[i])) =>
        \E i \in DOMAIN TopLevelPriorityOrder :
            /\ result.primary_language = TopLevelPriorityOrder[i]
            /\ Detected(TopLevelPriorityOrder[i])
            /\ \A j \in 1..(i - 1) : ~Detected(TopLevelPriorityOrder[j])

AllReturned == \A c \in DOMAIN callers : callers[c].pc = "done"

\* C20: under every interleaving of the calls on one path whose file does
\* not change, every call returns the text of the file (None when it cannot
\* be read), the cache never holds anything but that text, and once all
\* calls have returned the cache holds that text if a call asked for caching
C20_ConcurrentReadsAgree ==
    callers # NoCallers =>
        IF disk[cache_key].readable
        THEN /\ \A c \in Callers :
                  callers[c].pc = "done" => callers[c].returned = disk[cache_key].text
             /\ cache_key \in DOMAIN _file_content_cache =>
                  _file_content_cache[cache_key] = disk[cache_key].text
             /\ (AllReturned /\ \E c \in Callers : callers[c].use_cache) =>
                  /\ cache_key \in DOMAIN _file_content_cache
                  /\ _file_content_cache[cache_key] = disk[cache_key].text
        ELSE /\ \A c \in Callers : callers[c].pc = "done" => callers[c].returned = None
             /\ _file_content_cache = <<>>

\* two calls both missed the cache and both wrote the entry, and a third
\* call returned the cached entry
C20_Witness ==
    /\ callers # NoCallers
    /\ AllReturned
    /\ \E a, b \in Callers :
          /\ a # b
          /\ callers[a].stored
          /\ callers[b].stored
    /\ \E c \in Callers : callers[c].use_cache /\ ~callers[c].stored

\* the pattern of a rule accepts the file: line 121 for a pattern with "*",
\* line 125 for any other
Accepts(f, pattern) ==
    IF Contains(pattern, "*") THEN _match_pattern(f, pattern) ELSE f = pattern

\* the positions of file_patterns whose pattern accepts f
AcceptingPatterns(f, file_patterns) ==
    {i \in DOMAIN file_patterns : Accepts(f, file_patterns[i])}

\* the position in file_patterns that the entry at position a of matches
\* stands for: the n-th occurrence of a file stands for its n-th accepting
\* pattern
PatternOfEntry(matches, file_patterns, a) ==
    LET n == Cardinality({x \in 1..a : matches[x] = matches[a]})
        accepting == AcceptingPatterns(matches[a], file_patterns)
    IN  CHOOSE i \in accepting : Cardinality({x \in accepting : x <= i}) = n

\* C23: in the matched files of a detected language a file appears once for
\* each pattern of the rule that accepts it, the entries follow the order of
\* the patterns, and every entry counts 0.3 towards the confidence
C23_DuplicatesAcrossPatterns ==
    IsReport =>
        \A t \in DOMAIN DetectionTable :
            LET language == DetectionTable[t].key
                file_patterns == Get(DetectionTable[t].value, "files", <<>>)
                entry == ItemGet(result.detected_languages, language, EmptyDict)
                matches == entry.matched_files
            IN  Detected(language) =>
                    /\ \A f \in Range(files) \cup Range(matches) :
                          Cardinality({a \in DOMAIN matches : matches[a] = f})
                              = Cardinality(AcceptingPatterns(f, file_patterns))
                    /\ \A a, b \in DOMAIN matches :
                          a < b => PatternOfEntry(matches, file_patterns, a)
                                      <= PatternOfEntry(matches, file_patterns, b)
                    /\ entry.confidence >=
                          Min(10, 3 * Cardinality(
                              {<<f, i>> \in Range(files) \X DOMAIN file_patterns :
                                  Accepts(f, file_patterns[i])}))

\* one file is twice among the matched files of a language whose confidence
\* is below 1.0
C23_Witness ==
    /\ IsReport
    /\ \E d \in DOMAIN result.detected_languages :
          LET matches == result.detected_languages[d].value.matched_files
          IN  /\ \E a, b \in DOMAIN matches : a # b /\ matches[a] = matches[b]
              /\ result.detected_languages[d].value.confidence < 10

ReportFields ==
    {"path", "project_name", "files_found", "detected_languages", "primary_language",
     "confidence", "applicable_standards", "mandatory_files", "total_files"}

\* the last scan returned neither an error result nor an exception
ScanSucceeded == result # NoResult /\ ~IsError /\ "raised" \notin DOMAIN result

\* C24: a successful Scan Report has exactly the nine fields; confidence is
\* the confidence of the primary language among the detected languages, or
\* 0.0 when the primary language is null; total_files is the length of
\* files_found; files_found is in ascending order
C24_ReportFieldsConsistent ==
    ScanSucceeded =>
        /\ DOMAIN result = ReportFields
        /\ IF result.primary_language # None
           THEN /\ Detected(result.primary_language)
                /\ result.confidence = ConfidenceOf(result.primary_language)
           ELSE result.confidence = 0
        /\ result.total_files = Len(result.files_found)
        /\ \A i, j \in DOMAIN result.files_found :
              i < j => ~StrLess(result.files_found[j], result.files_found[i])

\* the directory was listed in another order than the sorted one and a
\* primary language of positive confidence was selected
C24_Witness ==
    /\ ScanSucceeded
    /\ result.files_found # files
    /\ Len(files) >= 2
    /\ result.primary_language # None
    /\ result.confidence > 0

\* C25: a scan, successful or not, leaves the loaded configuration and the
\* document cache as they were, and its result is the one the scanner would
\* give for the same listing right after construction
C25_ScanLeavesConfigurationAndCache ==
    [][(fs' = fs) =>
          /\ goto_config' = goto_config
          /\ _file_content_cache' = _file_content_cache
          /\ result' = scan(_load_goto_config(goto_file), fs.kind, files')]_vars

\* a scan selected a primary language by the priority order, the report
\* shares the standards and the mandatory files of the configuration, and
\* the document cache holds a document
C25_Witness ==
    /\ IsReport
    /\ _file_content_cache # <<>>
    /\ ConfiguredPriorityOrder # <<>>
    /\ result.primary_language # None
    /\ result.applicable_standards # <<>>
    /\ result.mandatory_files.required # <<>>

\* C21: a call of the token optimizer that has returned holds a result, with
\* an error field when the context file was missing or could not be read at
\* the moment the call looked at it, and never an exception
C21_FailuresAreErrorResults ==
    optimizer.pc = "done" => "raised" \notin DOMAIN optimizer.returned

\* the Scan Reports ProjectScanner.scan may compute for the directory
ScanReports == {scan(goto_config, fs.kind, l) : l \in Listings(fs.entries)}

\* C22: a scan_project call on an existing, readable directory returns a
\* Scan Report that ProjectScanner.scan computes for it, as a dictionary or
\* as its JSON text, and a generate_context call returns the context built
\* from such a report
C22_ToolCallsReturnScanAndContext ==
    (tool_call # NoToolCall /\ fs.kind = "dir") =>
        \E report \in ScanReports :
            LET wanted ==
                    IF tool_call.name = "scan_project" THEN report
                    ELSE generate(_file_content_cache, disk, report,
                                  tool_call.project_name).returned
            IN  IF tool_call.entry_point = "fastmcp_server"
                THEN tool_call.returned = wanted
                ELSE /\ ~tool_call.returned.isError
                     /\ tool_call.returned.text =
                           IF tool_call.name = "scan_project"
                           THEN json_dumps(wanted)
                           ELSE wanted

====
